---- MODULE Spec2Model ----
(***************************************************************************)
(* A model of class PetriNet (parse_task1.py): the PNML loader, the        *)
(* preset/postset builder, the incidence matrix generator and the          *)
(* consistency checker.                                                    *)
(*                                                                         *)
(* Python dictionaries are modelled as functions whose domain is the key   *)
(* set, Python lists as sequences, Python strings as TLA+ strings; where   *)
(* the characters of a string matter (sorted(), int()) the string is       *)
(* spelled out as a sequence of characters.                                *)
(***************************************************************************)
EXTENDS Integers, Sequences, FiniteSets, TLC

VARIABLES
    places,            \* self.places: id -> [id, token]
    transitions,       \* self.transitions: id -> [id, preset, postset]
    arcs,              \* self.arcs: list of [id, source, target]
    place_ids,         \* self.place_ids
    transition_ids,    \* self.transition_ids
    incidence_matrix,  \* self.incidence_matrix: list of rows
    ret,               \* the last call: its name, return value and printed defects
    doc,               \* the document at the path handed to load_from_pnml
    loads              \* number of load_from_pnml calls made on this object

vars == <<places, transitions, arcs, place_ids, transition_ids,
          incidence_matrix, ret, doc, loads>>

(***************************************************************************)
(* Bounds of the model.                                                    *)
(***************************************************************************)
MaxDocPlaces == 2
MaxDocTransitions == 1
MaxDocArcs == 2
MaxLoads == 2
MaxParsePlaces == 1
MaxParseTransitions == 1
MaxParseArcs == 1
MaxParseLoads == 2

(***************************************************************************)
(* Values.                                                                 *)
(***************************************************************************)
\* arc.get('id') is None when the attribute is missing.
None == "None"

NoNamespace == ""
Uri == "http://www.pnml.org/version-2009/grammar/pnml"

\* A place's initialMarking child: tag says whether the initialMarking element is
\* there, text whether it has a text child, value the characters of that text.
NoMarking == [tag |-> FALSE, text |-> FALSE, value |-> <<>>]
NoText == [tag |-> TRUE, text |-> FALSE, value |-> <<>>]
Text(s) == [tag |-> TRUE, text |-> TRUE, value |-> s]

SeqsUpTo(S, n) == UNION {[1..k -> S] : k \in 0..n}

\* The readable, namespace-qualified documents with the given place elements,
\* transition ids and arc elements.
DocSet(place_elems, transition_id_set, arc_elems) ==
    [readable : {TRUE}, ns : {Uri},
     places : SeqsUpTo(place_elems, MaxDocPlaces),
     transitions : SeqsUpTo([id : transition_id_set], MaxDocTransitions),
     arcs : SeqsUpTo(arc_elems, MaxDocArcs)]

\* Documents for the presets, postsets and the matrix. "p2" can be the id of a
\* place and of a transition: the two dictionaries are separate and nothing
\* keeps their keys apart. An endpoint is unknown when no element has its id.
Docs ==
    DocSet([id : {"p10", "p2"}, marking : {NoMarking}],
           {"t1", "p2"},
           [id : {None}, source : {"p2", "t1"}, target : {"p2", "t1"}])

\* Documents for the identifier lists: places in any order, repeated, with
\* different markings.
IdDocs ==
    DocSet([id : {"p10", "p2"}, marking : {NoMarking, Text(<<"5">>)}],
           {"t1", "p2"},
           [id : {"a1"}, source : {"p2"}, target : {"t1"}])

\* Documents for check_consistency: arcs with and without id, between t1 and
\* p9, which names no node.
CheckDocs ==
    DocSet([id : {"p2"}, marking : {NoMarking}],
           {"t1"},
           [id : {"a1", None}, source : {"t1", "p9"}, target : {"t1", "p9"}])

\* Documents for the parser: with and without a namespace, every shape of
\* initialMarking, and the file that cannot be read.
ParseDocs ==
    [readable : BOOLEAN, ns : {NoNamespace, Uri},
     places : SeqsUpTo([id : {"p10", "p2"},
                        marking : {NoMarking, NoText, Text(<<>>), Text(<<"5">>),
                                   Text(<<"a", "b", "c">>)}], MaxParsePlaces),
     transitions : SeqsUpTo([id : {"t1"}], MaxParseTransitions),
     arcs : SeqsUpTo([id : {"a1"}, source : {"p2"}, target : {"t1"}], MaxParseArcs)]

(***************************************************************************)
(* Dictionaries.                                                           *)
(***************************************************************************)
EmptyDict == [k \in {} |-> None]

Put(d, k, v) == [x \in (DOMAIN d) \cup {k} |-> IF x = k THEN v ELSE d[x]]

(***************************************************************************)
(* sorted() over identifier strings: Python compares strings code point by *)
(* code point, a proper prefix being smaller.                              *)
(***************************************************************************)
Chars(s) ==
    CASE s = "p10" -> <<"p", "1", "0">>
      [] s = "p2" -> <<"p", "2">>
      [] s = "p9" -> <<"p", "9">>
      [] s = "t1" -> <<"t", "1">>
      [] s = "a1" -> <<"a", "1">>

Ord(c) ==
    CASE c = "0" -> 48 [] c = "1" -> 49 [] c = "2" -> 50 [] c = "5" -> 53
      [] c = "9" -> 57 [] c = "a" -> 97 [] c = "b" -> 98 [] c = "c" -> 99
      [] c = "p" -> 112 [] c = "t" -> 116

RECURSIVE SeqLess(_, _)
SeqLess(a, b) ==
    IF b = <<>> THEN FALSE
    ELSE IF a = <<>> THEN TRUE
    ELSE IF Ord(Head(a)) # Ord(Head(b)) THEN Ord(Head(a)) < Ord(Head(b))
    ELSE SeqLess(Tail(a), Tail(b))

StrLess(a, b) == SeqLess(Chars(a), Chars(b))

\* Shorter identifiers first, as a numeric order of p2 and p10 would have it.
InsertByLength(seq, x) ==
    LET Before(y) == \/ Len(Chars(y)) < Len(Chars(x))
                     \/ Len(Chars(y)) = Len(Chars(x)) /\ ~StrLess(x, y)
        k == Cardinality({i \in 1..Len(seq) : Before(seq[i])})
    IN SubSeq(seq, 1, k) \o <<x>> \o SubSeq(seq, k + 1, Len(seq))

\* x goes after every element that is not greater than it.
Insert(seq, x) ==
    LET k == Cardinality({i \in 1..Len(seq) : ~StrLess(x, seq[i])})
    IN SubSeq(seq, 1, k) \o <<x>> \o SubSeq(seq, k + 1, Len(seq))

RECURSIVE sorted(_)
sorted(S) ==
    IF S = {} THEN <<>>
    ELSE LET x == CHOOSE y \in S : TRUE
         IN Insert(sorted(S \ {x}), x)

(***************************************************************************)
(* The document. ElementTree spells a qualified tag "{uri}local" and an    *)
(* unqualified one "local"; a tag is modelled as the pair (ns, local).     *)
(* Every element of a document carries the document's namespace.           *)
(***************************************************************************)
Tag(ns, local) == [ns |-> ns, local |-> local]

RootTag(d) == Tag(d.ns, "pnml")

\* tag.split('}')[0].strip('{'): the uri of a qualified tag, and the whole tag
\* when there is no '}' to split at.
NsUrl(tag) == IF tag.ns = NoNamespace THEN tag.local ELSE tag.ns

\* ns = {'pnml': ns_url}; split() never returns an empty list, so the
\* IndexError branch (ns = {}) is never taken.
Ns(d) == [pnml |-> NsUrl(RootTag(d))]

Truthy(dict) == DOMAIN dict # {}

\* The tag a search for 'pnml:<tag_name>' (with ns) or '<tag_name>' looks for.
Wanted(ns, tag_name) ==
    IF Truthy(ns) THEN Tag(ns.pnml, tag_name) ELSE Tag(NoNamespace, tag_name)

Elements(d, tag_name) ==
    CASE tag_name = "place" -> d.places
      [] tag_name = "transition" -> d.transitions
      [] tag_name = "arc" -> d.arcs

FindAll(d, tag_name) ==
    IF Tag(d.ns, tag_name) = Wanted(Ns(d), tag_name)
    THEN Elements(d, tag_name)
    ELSE <<>>

\* node.find(...) of a child element that is there or not.
Find(d, present, tag_name) ==
    present /\ Tag(d.ns, tag_name) = Wanted(Ns(d), tag_name)

Digits == {"0", "1", "2", "5", "9"}

RECURSIVE DecimalValue(_)
DecimalValue(s) ==
    IF s = <<>> THEN 0
    ELSE 10 * DecimalValue(SubSeq(s, 1, Len(s) - 1)) + (Ord(s[Len(s)]) - Ord("0"))

\* int(text): the number a digit string spells, ValueError otherwise.
int(s) ==
    IF s # <<>> /\ \A i \in 1..Len(s) : s[i] \in Digits
    THEN [raised |-> FALSE, value |-> DecimalValue(s)]
    ELSE [raised |-> TRUE, value |-> 0]

InitialMarking(d, place) ==
    LET marking_tag == Find(d, place.marking.tag, "initialMarking")
        text_tag == marking_tag /\ Find(d, place.marking.text, "text")
    IN IF text_tag /\ place.marking.value # <<>>
       THEN int(place.marking.value)
       ELSE [raised |-> FALSE, value |-> 0]

\* The loop over the place elements; it ends at the first int() that raises.
RECURSIVE ParsePlaces(_, _, _)
ParsePlaces(d, elems, P) ==
    IF elems = <<>> THEN [raised |-> FALSE, places |-> P]
    ELSE LET place == Head(elems)
             m == InitialMarking(d, place)
         IN IF m.raised
            THEN [raised |-> TRUE, places |-> P]
            ELSE ParsePlaces(d, Tail(elems),
                             Put(P, place.id, [id |-> place.id, token |-> m.value]))

RECURSIVE ParseTransitions(_, _)
ParseTransitions(elems, T) ==
    IF elems = <<>> THEN T
    ELSE LET t_id == Head(elems).id
         IN ParseTransitions(Tail(elems),
                Put(T, t_id, [id |-> t_id, preset |-> <<>>, postset |-> <<>>]))

ParseArcs(elems, A) ==
    A \o [i \in 1..Len(elems) |->
            [id |-> elems[i].id, source |-> elems[i].source, target |-> elems[i].target]]

(***************************************************************************)
(* _build_relationships and _generate_incidence_matrix.                    *)
(***************************************************************************)
\* The presets and postsets of the last build are kept.
KeepPrePost(T) == T

ResetPrePost(T) ==
    [t \in DOMAIN T |-> [T[t] EXCEPT !.preset = <<>>, !.postset = <<>>]]

\* An input arc parallel to an earlier one is dropped.
LinkArcOnce(T, P, arc) ==
    LET src == arc.source
        tgt == arc.target
    IN IF src \in DOMAIN P /\ tgt \in DOMAIN T
       THEN IF \E k \in 1..Len(T[tgt].preset) : T[tgt].preset[k] = src
            THEN T
            ELSE [T EXCEPT ![tgt].preset = Append(@, src)]
       ELSE IF src \in DOMAIN T /\ tgt \in DOMAIN P
       THEN [T EXCEPT ![src].postset = Append(@, tgt)]
       ELSE T

LinkArc(T, P, arc) ==
    LET src == arc.source
        tgt == arc.target
    IN IF src \in DOMAIN P /\ tgt \in DOMAIN T
       THEN [T EXCEPT ![tgt].preset = Append(@, src)]
       ELSE IF src \in DOMAIN T /\ tgt \in DOMAIN P
       THEN [T EXCEPT ![src].postset = Append(@, tgt)]
       ELSE T

RECURSIVE LinkArcs(_, _, _)
LinkArcs(T, P, A) ==
    IF A = <<>> THEN T ELSE LinkArcs(LinkArc(T, P, Head(A)), P, Tail(A))

\* No rows at all when there is no transition.
ZeroMatrixOrEmpty(n_p, n_t) ==
    IF n_t = 0 THEN <<>> ELSE [i \in 1..n_p |-> [j \in 1..n_t |-> 0]]

ZeroMatrix(n_p, n_t) == [i \in 1..n_p |-> [j \in 1..n_t |-> 0]]

\* list.index(x): the first position of x.
Index(list, x) ==
    CHOOSE i \in 1..Len(list) : list[i] = x /\ \A j \in 1..(i - 1) : list[j] # x

\* The entry is set, not accumulated.
SetAt(matrix, p_idx, t_idx, delta) ==
    [matrix EXCEPT ![p_idx][t_idx] = delta]

AddAt(matrix, p_idx, t_idx, delta) ==
    [matrix EXCEPT ![p_idx][t_idx] = @ + delta]

RECURSIVE AddEach(_, _, _, _, _)
AddEach(matrix, pids, ids, t_idx, delta) ==
    IF ids = <<>> THEN matrix
    ELSE AddEach(AddAt(matrix, Index(pids, Head(ids)), t_idx, delta),
                 pids, Tail(ids), t_idx, delta)

RECURSIVE FillColumns(_, _, _, _, _)
FillColumns(matrix, pids, tids, T, t_idx) ==
    IF t_idx > Len(tids) THEN matrix
    ELSE LET trans_data == T[tids[t_idx]]
             minus == AddEach(matrix, pids, trans_data.preset, t_idx, -1)
             plus == AddEach(minus, pids, trans_data.postset, t_idx, 1)
         IN FillColumns(plus, pids, tids, T, t_idx + 1)

GenerateIncidenceMatrix(pids, tids, T) ==
    FillColumns(ZeroMatrix(Len(pids), Len(tids)), pids, tids, T, 1)

Built(P, T, A) ==
    LET pids == sorted(DOMAIN P)
        tids == sorted(DOMAIN T)
        linked == LinkArcs(ResetPrePost(T), P, A)
    IN [place_ids |-> pids, transition_ids |-> tids, transitions |-> linked,
        incidence_matrix |-> GenerateIncidenceMatrix(pids, tids, linked)]

(***************************************************************************)
(* check_consistency: the defects it prints, in order.                     *)
(***************************************************************************)
Defect(kind, arc_id, node) == [kind |-> kind, arc |-> arc_id, node |-> node]

\* The target is looked at only when the source is known.
ArcDefectsFirstOnly(arc, all_nodes) ==
    IF arc.source \notin all_nodes
    THEN <<Defect("source", arc.id, arc.source)>>
    ELSE IF arc.target \notin all_nodes
    THEN <<Defect("target", arc.id, arc.target)>>
    ELSE <<>>

ArcDefects(arc, all_nodes) ==
    (IF arc.source \notin all_nodes
     THEN <<Defect("source", arc.id, arc.source)>> ELSE <<>>)
    \o
    (IF arc.target \notin all_nodes
     THEN <<Defect("target", arc.id, arc.target)>> ELSE <<>>)

RECURSIVE CheckArcs(_, _, _)
CheckArcs(errors, A, all_nodes) ==
    IF A = <<>> THEN errors
    ELSE CheckArcs(errors \o ArcDefects(Head(A), all_nodes), Tail(A), all_nodes)

Errors(P, T, A) ==
    LET all_nodes == (DOMAIN P) \cup (DOMAIN T)
        e1 == IF DOMAIN P = {} THEN <<Defect("no_place", None, None)>> ELSE <<>>
        e2 == IF DOMAIN T = {}
              THEN Append(e1, Defect("no_transition", None, None)) ELSE e1
    IN CheckArcs(e2, A, all_nodes)

(***************************************************************************)
(* The object after construction, and its methods.                         *)
(***************************************************************************)
Call(op, value, errors) == [op |-> op, value |-> value, errors |-> errors]

NoDoc == [readable |-> FALSE, ns |-> NoNamespace, places |-> <<>>,
          transitions |-> <<>>, arcs |-> <<>>]

\* A new object.
New ==
    /\ places = EmptyDict
    /\ transitions = EmptyDict
    /\ arcs = <<>>
    /\ place_ids = <<>>
    /\ transition_ids = <<>>
    /\ incidence_matrix = <<>>
    /\ ret = Call("__init__", None, <<>>)
    /\ loads = 0

Init == New /\ doc \in Docs

InitIds == New /\ doc \in IdDocs

InitCheck == New /\ doc \in CheckDocs

InitParse == New /\ doc = NoDoc

LoadFromPnml(d) ==
    /\ doc' = d
    /\ loads' = loads + 1
    /\ IF ~d.readable
       THEN /\ ret' = Call("load_from_pnml", "False", <<>>)
            /\ UNCHANGED <<places, transitions, arcs, place_ids, transition_ids,
                           incidence_matrix>>
       ELSE LET pp == ParsePlaces(d, FindAll(d, "place"), places)
            IN IF pp.raised
               THEN /\ places' = pp.places
                    /\ ret' = Call("load_from_pnml", "ValueError", <<>>)
                    /\ UNCHANGED <<transitions, arcs, place_ids, transition_ids,
                                   incidence_matrix>>
               ELSE LET T == ParseTransitions(FindAll(d, "transition"), transitions)
                        A == ParseArcs(FindAll(d, "arc"), arcs)
                        b == Built(pp.places, T, A)
                    IN /\ places' = pp.places
                       /\ arcs' = A
                       /\ transitions' = b.transitions
                       /\ place_ids' = b.place_ids
                       /\ transition_ids' = b.transition_ids
                       /\ incidence_matrix' = b.incidence_matrix
                       /\ ret' = Call("load_from_pnml", "True", <<>>)

BuildRelationships ==
    LET b == Built(places, transitions, arcs)
    IN /\ transitions' = b.transitions
       /\ place_ids' = b.place_ids
       /\ transition_ids' = b.transition_ids
       /\ incidence_matrix' = b.incidence_matrix
       /\ ret' = Call("_build_relationships", None, <<>>)
       /\ UNCHANGED <<places, arcs, doc, loads>>

CheckConsistency ==
    LET errors == Errors(places, transitions, arcs)
    IN /\ ret' = Call("check_consistency",
                      IF errors = <<>> THEN "True" ELSE "False", errors)
       /\ UNCHANGED <<places, transitions, arcs, place_ids, transition_ids,
                      incidence_matrix, doc, loads>>

\* The file at the path is loaded, a first time or again.
Load == loads < MaxLoads /\ LoadFromPnml(doc)

\* Some file is loaded.
LoadParse == loads < MaxParseLoads /\ \E d \in ParseDocs : LoadFromPnml(d)

Next == Load \/ BuildRelationships \/ CheckConsistency

Spec == Init /\ [][Next]_vars

SpecIds == InitIds /\ [][Next]_vars

SpecCheck == InitCheck /\ [][Next]_vars

NextParse == LoadParse \/ BuildRelationships \/ CheckConsistency

SpecParse == InitParse /\ [][NextParse]_vars

(***************************************************************************)
(* Properties.                                                             *)
(***************************************************************************)
\* The last call was _build_relationships, alone or at the end of a load.
AfterBuild ==
    \/ ret.op = "_build_relationships"
    \/ ret.op = "load_from_pnml" /\ ret.value = "True"

Count(x, seq) == Cardinality({k \in 1..Len(seq) : seq[k] = x})

Range(seq) == {seq[k] : k \in 1..Len(seq)}

\* C1: after _build_relationships the entry of place p and transition t is the
\* number of occurrences of p in postset(t) minus the number in preset(t),
\* accumulated and not clamped.
C1_MatrixCountsArcs ==
    AfterBuild =>
        \A i \in 1..Len(place_ids) : \A j \in 1..Len(transition_ids) :
            incidence_matrix[i][j] =
                Count(place_ids[i], transitions[transition_ids[j]].postset)
                - Count(place_ids[i], transitions[transition_ids[j]].preset)

\* Two parallel output arcs t1 -> p2 give the entry +2, in the row after p10's.
C1_Witness ==
    /\ AfterBuild
    /\ place_ids = <<"p10", "p2">>
    /\ transition_ids = <<"t1">>
    /\ transitions["t1"].postset = <<"p2", "p2">>
    /\ incidence_matrix = <<<<0>>, <<2>>>>

\* C8: after _build_relationships the matrix has len(place_ids) rows, each of
\* len(transition_ids) entries, whatever the net (empty, places only,
\* transitions only).
C8_MatrixShape ==
    AfterBuild =>
        /\ Len(incidence_matrix) = Len(place_ids)
        /\ \A i \in 1..Len(incidence_matrix) :
               Len(incidence_matrix[i]) = Len(transition_ids)

\* Places and no transition: two rows of no entries.
C8_Witness ==
    /\ AfterBuild
    /\ Len(place_ids) = 2
    /\ transition_ids = <<>>
    /\ incidence_matrix = <<<<>>, <<>>>>

\* C9: after _build_relationships place_ids is the strictly increasing
\* (lexicographic, duplicate-free) sequence of exactly the keys of places, with
\* as many entries as places has keys, and transition_ids likewise for
\* transitions; an identifier inserted again overwrites the earlier entry.
C9_SortedIds ==
    AfterBuild =>
        /\ Range(place_ids) = DOMAIN places
        /\ Len(place_ids) = Cardinality(DOMAIN places)
        /\ \A i \in 1..(Len(place_ids) - 1) : StrLess(place_ids[i], place_ids[i + 1])
        /\ Range(transition_ids) = DOMAIN transitions
        /\ Len(transition_ids) = Cardinality(DOMAIN transitions)
        /\ \A i \in 1..(Len(transition_ids) - 1) :
               StrLess(transition_ids[i], transition_ids[i + 1])

\* The document is loaded twice: p2 is inserted, then p10, then both again. The
\* ids come out once each and sorted, "p10" before "p2".
C9_Witness ==
    /\ ret.op = "load_from_pnml" /\ ret.value = "True"
    /\ loads = 2
    /\ Len(doc.places) = 2
    /\ doc.places[1].id = "p2" /\ doc.places[1].marking = Text(<<"5">>)
    /\ doc.places[2].id = "p10"
    /\ DOMAIN places = {"p10", "p2"}
    /\ places["p2"].token = 5
    /\ place_ids = <<"p10", "p2">>

\* The two endpoints of every arc, in arc-list order, source before target.
Endpoints ==
    [n \in 1..(2 * Len(arcs)) |->
        LET arc == arcs[(n + 1) \div 2]
        IN IF n % 2 = 1
           THEN Defect("source", arc.id, arc.source)
           ELSE Defect("target", arc.id, arc.target)]

Unknown(e) == e.node \notin (DOMAIN places) \cup (DOMAIN transitions)

GlobalDefects ==
    (IF DOMAIN places = {} THEN <<Defect("no_place", None, None)>> ELSE <<>>)
    \o (IF DOMAIN transitions = {} THEN <<Defect("no_transition", None, None)>> ELSE <<>>)

\* C5: check_consistency reports every defect: no places, no transitions, then
\* one per arc endpoint that is neither a place nor a transition, in arc-list
\* order and source before target, each naming the arc and the missing
\* identifier; it returns True exactly when there is none.
C5_AllDefectsInOrder ==
    ret.op = "check_consistency" =>
        /\ ret.errors = GlobalDefects \o SelectSeq(Endpoints, Unknown)
        /\ (ret.value = "True") <=> (ret.errors = <<>>)

\* No place, an arc a1 from the unknown p9 into the known t1 and an arc without
\* id from t1 to p9: three defects, in that order.
C5_Witness ==
    /\ ret.op = "check_consistency"
    /\ DOMAIN places = {}
    /\ DOMAIN transitions = {"t1"}
    /\ arcs = <<[id |-> "a1", source |-> "p9", target |-> "t1"],
                [id |-> None, source |-> "t1", target |-> "p9"]>>
    /\ ret.errors = <<Defect("no_place", None, None), Defect("source", "a1", "p9"),
                      Defect("target", None, "p9")>>
    /\ ret.value = "False"

IsInputArc(a) == a.source \in DOMAIN places /\ a.target \in DOMAIN transitions

IsOutputArc(a) == a.source \in DOMAIN transitions /\ a.target \in DOMAIN places

\* C6: an arc that is neither place -> transition nor transition -> place makes
\* check_consistency fail.
C6_MalformedArcFails ==
    (ret.op = "check_consistency"
     /\ \E k \in 1..Len(arcs) : ~IsInputArc(arcs[k]) /\ ~IsOutputArc(arcs[k]))
        => ret.value = "False"

\* C7: _build_relationships called right after a build, on unchanged places,
\* transitions and arcs, leaves the presets and postsets, place_ids,
\* transition_ids and incidence_matrix as they were.
C7_BuildIdempotent ==
    [][(AfterBuild /\ ret'.op = "_build_relationships")
        => /\ transitions' = transitions
           /\ place_ids' = place_ids
           /\ transition_ids' = transition_ids
           /\ incidence_matrix' = incidence_matrix]_vars

\* _build_relationships called after the load that built two parallel input
\* arcs: the preset still holds each once.
C7_Witness ==
    /\ ret.op = "_build_relationships"
    /\ loads = 1
    /\ Len(doc.arcs) = 2
    /\ Len(arcs) = 2
    /\ place_ids = <<"p2">>
    /\ transition_ids = <<"t1">>
    /\ transitions["t1"].preset = <<"p2", "p2">>
    /\ incidence_matrix = <<<<-2>>>>

Sources(A) == [k \in 1..Len(A) |-> A[k].source]

Targets(A) == [k \in 1..Len(A) |-> A[k].target]

InputArcsOf(t) ==
    LET Test(a) == a.source \in DOMAIN places /\ a.target = t
    IN SelectSeq(arcs, Test)

OutputArcsOf(t) ==
    LET Test(a) == a.source = t /\ a.target \in DOMAIN places
    IN SelectSeq(arcs, Test)

OutputOnlyArcsOf(t) ==
    LET Test(a) == a.source = t /\ a.target \in DOMAIN places /\ ~IsInputArc(a)
    IN SelectSeq(arcs, Test)

\* The arcs of the last document are the end of the arc list, none dropped.
DocArcsKept ==
    (ret.op = "load_from_pnml" /\ ret.value = "True") =>
        /\ Len(arcs) >= Len(doc.arcs)
        /\ SubSeq(arcs, Len(arcs) - Len(doc.arcs) + 1, Len(arcs)) = doc.arcs

IdsOf(elems) == {elems[k].id : k \in 1..Len(elems)}

\* What a new object holds after loading d.
Fresh(d) ==
    [places |-> ParsePlaces(d, FindAll(d, "place"), EmptyDict).places,
     transition_ids |-> DOMAIN ParseTransitions(FindAll(d, "transition"), EmptyDict),
     arcs |-> ParseArcs(FindAll(d, "arc"), <<>>)]

\* C2: after every successful load the object holds what a new object would hold
\* after loading that document, and nothing of an earlier load.
C2_LoadReplaces ==
    (ret.op = "load_from_pnml" /\ ret.value = "True") =>
        /\ places = Fresh(doc).places
        /\ DOMAIN transitions = Fresh(doc).transition_ids
        /\ arcs = Fresh(doc).arcs
        /\ Range(place_ids) = DOMAIN Fresh(doc).places
        /\ Range(transition_ids) = Fresh(doc).transition_ids

\* C3: the first successful load of a document, with or without a namespace,
\* finds every place, transition and arc element of it.
C3_FindsEveryElement ==
    (ret.op = "load_from_pnml" /\ ret.value = "True" /\ loads = 1) =>
        /\ DOMAIN places = IdsOf(doc.places)
        /\ DOMAIN transitions = IdsOf(doc.transitions)
        /\ arcs = doc.arcs

\* The token count C4 gives a marking: the number a numeric text spells, 0 when
\* the initialMarking or its text is missing, empty or not numeric.
ClaimedToken(m) ==
    IF m.tag /\ m.text /\ ~int(m.value).raised THEN int(m.value).value ELSE 0

\* C4: the first load of a readable, namespace-qualified document returns True
\* whatever the markings are, and every place holds the token count of its
\* (last) element.
C4_MarkingDefaultsToZero ==
    (ret.op = "load_from_pnml" /\ loads = 1 /\ doc.readable /\ doc.ns = Uri) =>
        /\ ret.value = "True"
        /\ \A i \in 1..Len(doc.places) :
              (\A j \in (i + 1)..Len(doc.places) : doc.places[j].id # doc.places[i].id)
                  => places[doc.places[i].id].token = ClaimedToken(doc.places[i].marking)

====
